---- MODULE Spec2Model ----
(***************************************************************************)
(* NHSSynth: stage I/O (filename resolution, handover or disk load) of the *)
(* model and plotting stages, and the TransformerWrapper.                  *)
(*                                                                         *)
(* A filename is a sequence of tokens: a name chunk ("a", "foo", "typed"), *)
(* the underscore "_", the path separator "/", or a file extension         *)
(* (".pkl", ".csv", ".pt") kept as one token.  String concatenation is     *)
(* sequence concatenation.                                                 *)
(***************************************************************************)
EXTENDS Integers, Sequences, FiniteSets, TLC

VARIABLES
    op,        \* the function under call
    phase,     \* "called" before the function has run, "done" after
    args,      \* the arguments (argparse.Namespace or positional) as they are after the call
    disk,      \* experiment directory: resolved filename -> state of the file
    result,    \* what the call returned or raised
    events,    \* the calls the function made, in order
    passes     \* how many times the filenames were passed through the same function

vars == <<op, phase, args, disk, result, events, passes>>

\* Longest dataset name / filename argument drawn, in tokens.
MaxLen == 2

Tokens == {"a", "_", ".csv"}

Names == UNION {[1..n -> Tokens] : n \in 1..MaxLen}

\* ---------------------------------------------------------------------
\* nhssynth.common.io (the helpers the stages import with `from ... import *`)
\* ---------------------------------------------------------------------

Exts == {".pkl", ".csv", ".pt"}

HasExt(fn) == Len(fn) > 0 /\ fn[Len(fn)] \in Exts

BaseName(fn) == IF HasExt(fn) THEN SubSeq(fn, 1, Len(fn) - 1) ELSE fn

consistent_ending(fn, ending) == IF HasExt(fn) THEN fn ELSE Append(fn, ending)

consistent_endings(fns) == [i \in 1..Len(fns) |-> consistent_ending(fns[i], ".pkl")]

potential_suffix(fn, fn_base) ==
    IF Len(fn) > 0 /\ fn[1] = "_" THEN BaseName(fn_base) \o fn ELSE fn

potential_suffixes(fns, fn_base) == [i \in 1..Len(fns) |-> potential_suffix(fns[i], fn_base)]

SelectSeqIn(s, S) == SelectSeq(s, LAMBDA x : x \in S)

\* the names that carry a path separator: each gets a non-fatal warning
warn_if_path_supplied(fns) ==
    SelectSeqIn(fns, {fn \in {fns[i] : i \in 1..Len(fns)} : \E k \in 1..Len(fn) : fn[k] = "/"})

FileStatus(d, fn) == IF fn \in DOMAIN d THEN d[fn] ELSE "absent"

\* the names of `fns` absent from the experiment directory, in order;
\* check_exists raises MissingArtifactError over them when there is one
check_exists(fns, d) ==
    SelectSeqIn(fns, {fn \in {fns[i] : i \in 1..Len(fns)} : FileStatus(d, fn) = "absent"})

\* ---------------------------------------------------------------------
\* Events and outcomes
\* ---------------------------------------------------------------------

Ev(e, fns, out) == [ev |-> e, fns |-> fns, out |-> out]

EvConsistentEnding(fn, ending) == Ev("consistent_ending", <<fn>>, <<consistent_ending(fn, ending)>>)

EvPotentialSuffix(fn, fn_base) == Ev("potential_suffix", <<fn, fn_base>>, <<potential_suffix(fn, fn_base)>>)

EvWarn(fns) == Ev("warn_if_path_supplied", fns, warn_if_path_supplied(fns))

EvCheckExists(fns, d) == Ev("check_exists", fns, check_exists(fns, d))

NoResult == [kind |-> "none", err |-> "", names |-> <<>>, vals |-> <<>>]

Return(names, vals) == [kind |-> "return", err |-> "", names |-> names, vals |-> vals]

\* an exception leaving the function; names: the files the error names
Raise(err, names) == [kind |-> "raise", err |-> err, names |-> names, vals |-> <<>>]

Outcome(r, evs, a) == [result |-> r, events |-> evs, args |-> a]

\* an artifact value: where it came from ("handover" or "disk") and its key or filename
Val(src, of) == [src |-> src, of |-> of]

\* `with open(dir_experiment / fn, "rb") as f: x = pickle.load(f)`:
\* open raises on an absent or unreadable file; a file that was opened is
\* closed when the block is left, by return or by exception
OpenAndLoad(fn, d) ==
    LET st == FileStatus(d, fn)
    IN  IF st = "absent"
        THEN [ok |-> FALSE, err |-> "FileNotFoundError", evs |-> <<Ev("open_failed", <<fn>>, <<>>)>>]
        ELSE IF st = "unreadable"
        THEN [ok |-> FALSE, err |-> "PermissionError", evs |-> <<Ev("open_failed", <<fn>>, <<>>)>>]
        ELSE IF st = "corrupt"
        THEN [ok |-> FALSE, err |-> "UnpicklingError",
              evs |-> <<Ev("open", <<fn>>, <<>>), Ev("load_failed", <<fn>>, <<>>), Ev("close", <<fn>>, <<>>)>>]
        ELSE [ok |-> TRUE, err |-> "",
              evs |-> <<Ev("open", <<fn>>, <<>>), Ev("load", <<fn>>, <<>>), Ev("close", <<fn>>, <<>>)>>]

\* ---------------------------------------------------------------------
\* modules/model/io.py
\* ---------------------------------------------------------------------

\* C4 mutant: the filenames are returned without the suffix step
model_check_input_paths_NoSuffix(fn_dataset, fn_prepared, fn_metatransformer, d) ==
    LET ds == consistent_ending(fn_dataset, ".pkl")
        p1 == consistent_ending(fn_prepared, ".pkl")
        m1 == consistent_ending(fn_metatransformer, ".pkl")
        missing == check_exists(<<p1, m1>>, d)
        evs == << EvConsistentEnding(fn_dataset, ".pkl"),
                  EvConsistentEnding(fn_prepared, ".pkl"),
                  EvConsistentEnding(fn_metatransformer, ".pkl"),
                  EvWarn(<<ds, p1, m1>>),
                  EvCheckExists(<<p1, m1>>, d) >>
    IN  IF missing # <<>>
        THEN [result |-> Raise("MissingArtifactError", missing), events |-> evs]
        ELSE [result |-> Return(<<ds, p1, m1>>, <<>>), events |-> evs]

\* C5 mutant: only the prepared data is checked for existence
model_check_input_paths_ChecksFirst(fn_dataset, fn_prepared, fn_metatransformer, d) ==
    LET ds == consistent_ending(fn_dataset, ".pkl")
        p1 == consistent_ending(fn_prepared, ".pkl")
        m1 == consistent_ending(fn_metatransformer, ".pkl")
        p2 == potential_suffix(p1, ds)
        m2 == potential_suffix(m1, ds)
        missing == check_exists(<<p2>>, d)
        evs == << EvConsistentEnding(fn_dataset, ".pkl"),
                  EvConsistentEnding(fn_prepared, ".pkl"),
                  EvConsistentEnding(fn_metatransformer, ".pkl"),
                  EvPotentialSuffix(p1, ds),
                  EvPotentialSuffix(m1, ds),
                  EvWarn(<<ds, p2, m2>>),
                  EvCheckExists(<<p2>>, d) >>
    IN  IF missing # <<>>
        THEN [result |-> Raise("MissingArtifactError", missing), events |-> evs]
        ELSE [result |-> Return(<<ds, p2, m2>>, <<>>), events |-> evs]

model_check_input_paths(fn_dataset, fn_prepared, fn_metatransformer, d) ==
    LET ds == consistent_ending(fn_dataset, ".pkl")
        p1 == consistent_ending(fn_prepared, ".pkl")
        m1 == consistent_ending(fn_metatransformer, ".pkl")
        p2 == potential_suffix(p1, ds)
        m2 == potential_suffix(m1, ds)
        missing == check_exists(<<p2, m2>>, d)
        evs == << EvConsistentEnding(fn_dataset, ".pkl"),
                  EvConsistentEnding(fn_prepared, ".pkl"),
                  EvConsistentEnding(fn_metatransformer, ".pkl"),
                  EvPotentialSuffix(p1, ds),
                  EvPotentialSuffix(m1, ds),
                  EvWarn(<<ds, p2, m2>>),
                  EvCheckExists(<<p2, m2>>, d) >>
    IN  IF missing # <<>>
        THEN [result |-> Raise("MissingArtifactError", missing), events |-> evs]
        ELSE [result |-> Return(<<ds, p2, m2>>, <<>>), events |-> evs]

\* C7 mutant: the model filename gets the default ending ".pkl"
model_check_output_paths_PklModel(fn_dataset, fn_synth, fn_model) ==
    LET s1 == consistent_ending(fn_synth, ".pkl")
        m1 == consistent_ending(fn_model, ".pkl")
        s2 == potential_suffix(s1, fn_dataset)
        m2 == potential_suffix(m1, fn_dataset)
        evs == << EvConsistentEnding(fn_synth, ".pkl"),
                  EvConsistentEnding(fn_model, ".pkl"),
                  EvPotentialSuffix(s1, fn_dataset),
                  EvPotentialSuffix(m1, fn_dataset),
                  EvWarn(<<s2, m2>>) >>
    IN  [result |-> Return(<<s2, m2>>, <<>>), events |-> evs]

\* C10 mutant: the ending is appended to the synthetic-data filename
\* whether or not it has one
model_check_output_paths_Appends(fn_dataset, fn_synth, fn_model) ==
    LET s1 == Append(fn_synth, ".pkl")
        m1 == consistent_ending(fn_model, ".pt")
        s2 == potential_suffix(s1, fn_dataset)
        m2 == potential_suffix(m1, fn_dataset)
        evs == << Ev("consistent_ending", <<fn_synth>>, <<s1>>),
                  EvConsistentEnding(fn_model, ".pt"),
                  EvPotentialSuffix(s1, fn_dataset),
                  EvPotentialSuffix(m1, fn_dataset),
                  EvWarn(<<s2, m2>>) >>
    IN  [result |-> Return(<<s2, m2>>, <<>>), events |-> evs]

model_check_output_paths(fn_dataset, fn_synth, fn_model) ==
    LET s1 == consistent_ending(fn_synth, ".pkl")
        m1 == consistent_ending(fn_model, ".pt")
        s2 == potential_suffix(s1, fn_dataset)
        m2 == potential_suffix(m1, fn_dataset)
        evs == << EvConsistentEnding(fn_synth, ".pkl"),
                  EvConsistentEnding(fn_model, ".pt"),
                  EvPotentialSuffix(s1, fn_dataset),
                  EvPotentialSuffix(m1, fn_dataset),
                  EvWarn(<<s2, m2>>) >>
    IN  [result |-> Return(<<s2, m2>>, <<>>), events |-> evs]

\* getattr(args, "model_input", None) is truthy: the attribute is there and
\* is a non-empty mapping
ModelInputTruthy(a) == a.has_handover /\ DOMAIN a.handover # {}

ModelKeys == <<"fn_dataset", "prepared_dataset", "metatransformer">>

\* the handover branch: the tuple (h[k1], h[k2], h[k3]) is built left to
\* right, and the first key that is not in the mapping raises KeyError
model_from_handover(a) ==
    LET h == a.handover
        absent == SelectSeqIn(ModelKeys, {ModelKeys[i] : i \in 1..3} \ DOMAIN h)
    IN  IF absent # <<>>
        THEN Outcome(Raise("KeyError", <<<<absent[1]>>>>), <<>>, a)
        ELSE Outcome(Return(<<>>, <<h["fn_dataset"], h["prepared_dataset"], h["metatransformer"]>>), <<>>, a)

\* C8 mutant: the second artifact is opened although the first failed
model_from_disk_KeepsGoing(a, d) ==
    LET cip == model_check_input_paths(a.dataset, a.fn1, a.fn2, d)
        names == cip.result.names
        l1 == OpenAndLoad(names[2], d)
        l2 == OpenAndLoad(names[3], d)
    IN  IF cip.result.kind = "raise"
        THEN Outcome(cip.result, cip.events, a)
        ELSE IF ~l1.ok
        THEN Outcome(Raise(l1.err, <<names[2]>>), cip.events \o l1.evs \o l2.evs, a)
        ELSE IF ~l2.ok
        THEN Outcome(Raise(l2.err, <<names[3]>>), cip.events \o l1.evs \o l2.evs, a)
        ELSE Outcome(Return(<<names[1]>>,
                            <<Val("resolved", names[1]), Val("disk", names[2]), Val("disk", names[3])>>),
                     cip.events \o l1.evs \o l2.evs, a)

\* the disk branch: check_input_paths, then the two `with open` blocks
model_from_disk(a, d) ==
    LET cip == model_check_input_paths(a.dataset, a.fn1, a.fn2, d)
        names == cip.result.names
        l1 == OpenAndLoad(names[2], d)
        l2 == OpenAndLoad(names[3], d)
    IN  IF cip.result.kind = "raise"
        THEN Outcome(cip.result, cip.events, a)
        ELSE IF ~l1.ok
        THEN Outcome(Raise(l1.err, <<names[2]>>), cip.events \o l1.evs, a)
        ELSE IF ~l2.ok
        THEN Outcome(Raise(l2.err, <<names[3]>>), cip.events \o l1.evs \o l2.evs, a)
        ELSE Outcome(Return(<<names[1]>>,
                            <<Val("resolved", names[1]), Val("disk", names[2]), Val("disk", names[3])>>),
                     cip.events \o l1.evs \o l2.evs, a)

\* C1 mutant: the disk copy is taken whenever the files are there
model_load_required_data_PrefersDisk(a, d) ==
    IF ModelInputTruthy(a) /\ model_from_disk(a, d).result.kind # "return"
    THEN model_from_handover(a)
    ELSE model_from_disk(a, d)

model_load_required_data(a, d) ==
    IF ModelInputTruthy(a)
    THEN model_from_handover(a)
    ELSE model_from_disk(a, d)

\* ---------------------------------------------------------------------
\* modules/plotting/io.py
\* ---------------------------------------------------------------------

PlottingKeys == <<"dataset", "typed", "eval_bundle">>

\* C3 mutant: the suffix is put on first and the extension normalized after
plotting_check_input_paths_SuffixFirst(fn_dataset, fn_typed, fn_eval_bundle, d) ==
    LET ds == consistent_ending(fn_dataset, ".pkl")
        s2 == potential_suffixes(<<fn_typed, fn_eval_bundle>>, ds)
        e2 == consistent_endings(s2)
        missing == check_exists(<<e2[1]>>, d)
        evs == << EvConsistentEnding(fn_dataset, ".pkl"),
                  EvPotentialSuffix(fn_typed, ds),
                  EvPotentialSuffix(fn_eval_bundle, ds),
                  EvConsistentEnding(s2[1], ".pkl"),
                  EvConsistentEnding(s2[2], ".pkl"),
                  EvWarn(<<ds, e2[1], e2[2]>>),
                  EvCheckExists(<<e2[1]>>, d) >>
    IN  IF missing # <<>>
        THEN [result |-> Raise("MissingArtifactError", missing), events |-> evs]
        ELSE [result |-> Return(<<ds, e2[1], e2[2]>>, <<>>), events |-> evs]

plotting_check_input_paths(fn_dataset, fn_typed, fn_eval_bundle, d) ==
    LET e1 == consistent_endings(<<fn_dataset, fn_typed, fn_eval_bundle>>)
        ds == e1[1]
        e2 == potential_suffixes(<<e1[2], e1[3]>>, ds)
        missing == check_exists(<<e2[1]>>, d)
        evs == << EvConsistentEnding(fn_dataset, ".pkl"),
                  EvConsistentEnding(fn_typed, ".pkl"),
                  EvConsistentEnding(fn_eval_bundle, ".pkl"),
                  EvPotentialSuffix(e1[2], ds),
                  EvPotentialSuffix(e1[3], ds),
                  EvWarn(<<ds, e2[1], e2[2]>>),
                  EvCheckExists(<<e2[1]>>, d) >>
    IN  IF missing # <<>>
        THEN [result |-> Raise("MissingArtifactError", missing), events |-> evs]
        ELSE [result |-> Return(<<ds, e2[1], e2[2]>>, <<>>), events |-> evs]

plotting_from_handover(a) ==
    LET h == a.handover
    IN  Outcome(Return(<<>>, <<h["dataset"], h["typed"], h["eval_bundle"]>>), <<>>, a)

\* the disk branch: check_input_paths, then the two `with open` blocks
plotting_from_disk(a, d) ==
    LET cip == plotting_check_input_paths(a.dataset, a.fn1, a.fn2, d)
        names == cip.result.names
        l1 == OpenAndLoad(names[2], d)
        l2 == OpenAndLoad(names[3], d)
    IN  IF cip.result.kind = "raise"
        THEN Outcome(cip.result, cip.events, a)
        ELSE IF ~l1.ok
        THEN Outcome(Raise(l1.err, <<names[2]>>), cip.events \o l1.evs, a)
        ELSE IF ~l2.ok
        THEN Outcome(Raise(l2.err, <<names[3]>>), cip.events \o l1.evs \o l2.evs, a)
        ELSE Outcome(Return(<<names[1]>>,
                            <<Val("resolved", names[1]), Val("disk", names[2]), Val("disk", names[3])>>),
                     cip.events \o l1.evs \o l2.evs, a)

\* C9 mutant: each value is taken from the handover object when its key is
\* there and from disk otherwise, and the keys used are removed
plotting_load_required_data_PerKey(a, d) ==
    LET h == a.handover
        o == plotting_from_disk(a, d)
        left == [a EXCEPT !.handover = <<>>]
    IN  IF \A i \in 1..3 : PlottingKeys[i] \in DOMAIN h
        THEN [plotting_from_handover(a) EXCEPT !.args = left]
        ELSE IF o.result.kind # "return"
        THEN o
        ELSE [o EXCEPT !.result.vals =
                 [i \in 1..3 |-> IF PlottingKeys[i] \in DOMAIN h THEN h[PlottingKeys[i]] ELSE o.result.vals[i]]]

plotting_load_required_data(a, d) ==
    IF \A i \in 1..3 : PlottingKeys[i] \in DOMAIN a.handover
    THEN plotting_from_handover(a)
    ELSE plotting_from_disk(a, d)

\* ---------------------------------------------------------------------
\* Calls of the path functions: the arguments are drawn in Init; a later
\* call may pass the returned filenames through the same function again
\* ---------------------------------------------------------------------

\* suffix_parser_generator: default=f"_{name}"
SuffixDefault(name) == <<"_", name>>

\* filename arguments beside the exhaustive ones: a CLI default, an explicit
\* name with an extension, a path, a suffix token that has an extension
FnSamples ==
    {SuffixDefault("metatransformer"), <<"foo", ".csv">>, <<"dir", "/", "foo">>, <<"_", "x", ".pt">>}

Datasets == Names \cup {<<"patients">>, <<"patients", ".pkl">>}

FnArgs == Names \cup {SuffixDefault("typed"), SuffixDefault("model")}

PathOps == {"model_check_input_paths", "model_check_output_paths", "plotting_check_input_paths"}

PathArgs == [dataset : Datasets, fn1 : FnSamples, fn2 : FnArgs]

\* the files a call's arguments resolve to
ResolvedInputs(a) ==
    {potential_suffix(consistent_ending(fn, ".pkl"), consistent_ending(a.dataset, ".pkl")) : fn \in {a.fn1, a.fn2}}

\* how often the filenames are passed through one function
MaxPasses == 2

InitPaths ==
    /\ op \in PathOps
    /\ phase = "called"
    /\ args \in PathArgs
    /\ disk \in [ResolvedInputs(args) -> {"ok", "absent"}]
    /\ (op = "model_check_output_paths" => \A fn \in DOMAIN disk : disk[fn] = "absent")
    /\ result = NoResult
    /\ events = <<>>
    /\ passes = 0

\* the arguments of this call: those drawn, or the filenames the last call returned
CallArgs3 ==
    IF phase = "called" THEN args
    ELSE [dataset |-> result.names[1], fn1 |-> result.names[2], fn2 |-> result.names[3]]

CallArgs2 ==
    IF phase = "called" THEN args
    ELSE [dataset |-> args.dataset, fn1 |-> result.names[1], fn2 |-> result.names[2]]

MayCall == phase = "called" \/ (phase = "done" /\ result.kind = "return" /\ passes < MaxPasses)

ModelCheckInputPaths ==
    /\ op = "model_check_input_paths"
    /\ MayCall
    /\ LET a == CallArgs3
           r == model_check_input_paths(a.dataset, a.fn1, a.fn2, disk)
       IN  /\ args' = a
           /\ result' = r.result
           /\ events' = r.events
    /\ phase' = "done"
    /\ passes' = passes + 1
    /\ UNCHANGED <<op, disk>>

ModelCheckOutputPaths ==
    /\ op = "model_check_output_paths"
    /\ MayCall
    /\ LET a == CallArgs2
           r == model_check_output_paths(a.dataset, a.fn1, a.fn2)
       IN  /\ args' = a
           /\ result' = r.result
           /\ events' = r.events
    /\ phase' = "done"
    /\ passes' = passes + 1
    /\ UNCHANGED <<op, disk>>

PlottingCheckInputPaths ==
    /\ op = "plotting_check_input_paths"
    /\ MayCall
    /\ LET a == CallArgs3
           r == plotting_check_input_paths(a.dataset, a.fn1, a.fn2, disk)
       IN  /\ args' = a
           /\ result' = r.result
           /\ events' = r.events
    /\ phase' = "done"
    /\ passes' = passes + 1
    /\ UNCHANGED <<op, disk>>

NextPaths == ModelCheckInputPaths \/ ModelCheckOutputPaths \/ PlottingCheckInputPaths

SpecPaths == InitPaths /\ [][NextPaths]_vars

\* ---------------------------------------------------------------------
\* Filename resolution: properties
\* ---------------------------------------------------------------------

InputPathOps == {"model_check_input_paths", "plotting_check_input_paths"}

FirstCallDone == op \in PathOps /\ phase = "done" /\ passes = 1

IsSuffixToken(fn) == Len(fn) > 0 /\ fn[1] = "_"

EventIdx(e) == {i \in 1..Len(events) : events[i].ev = e}

\* C3 as stated: every filename goes through suffix-from-dataset first and
\* through extension normalization after it, i.e. each potential_suffix
\* call's output is the input of a later consistent_ending call.
C3_SuffixThenExtension ==
    FirstCallDone =>
        \A j \in EventIdx("potential_suffix") :
            \E i \in EventIdx("consistent_ending") : i > j /\ events[i].fns[1] = events[j].out[1]

\* C3 amended: every stage's filename resolution normalizes the extension
\* first and applies suffix-from-dataset after it: each potential_suffix
\* call takes the output of an earlier consistent_ending call, no
\* consistent_ending call follows a potential_suffix call, every returned
\* input or output filename is the output of a potential_suffix call, and
\* the prefix put before a suffix token is the dataset base name.
C3_ExtensionThenSuffix ==
    FirstCallDone =>
        /\ \A j \in EventIdx("potential_suffix") :
              /\ \E i \in EventIdx("consistent_ending") : i < j /\ events[i].out[1] = events[j].fns[1]
              /\ \A i \in EventIdx("consistent_ending") : i < j
              /\ IsSuffixToken(events[j].fns[1]) =>
                    events[j].out[1] = BaseName(args.dataset) \o events[j].fns[1]
        /\ Cardinality(EventIdx("potential_suffix")) = 2
        /\ result.kind = "return" =>
              \A fn \in {args.fn1, args.fn2} :
                  \E j \in EventIdx("potential_suffix") :
                      /\ events[j].out[1] \in {result.names[k] : k \in 1..Len(result.names)}
                      /\ \E i \in EventIdx("consistent_ending") :
                            events[i].fns[1] = fn /\ events[i].out[1] = events[j].fns[1]

C3_Witness ==
    /\ FirstCallDone
    /\ op = "plotting_check_input_paths"
    /\ args.dataset = <<"patients">>
    /\ args.fn2 = SuffixDefault("typed")
    /\ result.kind = "return"
    /\ result.names[3] = <<"patients", "_", "typed", ".pkl">>

\* the filename C4 names for an argument: D + suffix + ".pkl" for a bare
\* suffix token, the argument itself for an explicit name with an extension
C4_Covers(fn) == (IsSuffixToken(fn) /\ ~HasExt(fn)) \/ (~IsSuffixToken(fn) /\ HasExt(fn))

C4_Expected(fn) == IF IsSuffixToken(fn) THEN args.dataset \o fn \o <<".pkl">> ELSE fn

\* C4: for a dataset base name D, an input-path function returns
\* D + suffix + ".pkl" for an argument given as a bare suffix token and
\* returns an explicit argument that has an extension unchanged; it does
\* return when the files so named are in the experiment directory.
C4_SuffixResolution ==
    (FirstCallDone /\ op \in InputPathOps /\ ~HasExt(args.dataset)) =>
        /\ result.kind = "return" =>
              \A k \in {2, 3} :
                  LET fn == IF k = 2 THEN args.fn1 ELSE args.fn2
                  IN  C4_Covers(fn) => result.names[k] = C4_Expected(fn)
        /\ ( /\ C4_Covers(args.fn1) /\ C4_Covers(args.fn2)
             /\ FileStatus(disk, C4_Expected(args.fn1)) = "ok"
             /\ FileStatus(disk, C4_Expected(args.fn2)) = "ok" ) => result.kind = "return"

C4_Witness ==
    /\ FirstCallDone
    /\ op = "model_check_input_paths"
    /\ args = [dataset |-> <<"patients">>, fn1 |-> <<"foo", ".csv">>, fn2 |-> SuffixDefault("typed")]
    /\ result = Return(<<<<"patients", ".pkl">>, <<"foo", ".csv">>, <<"patients", "_", "typed", ".pkl">>>>, <<>>)

\* C7: check_output_paths resolves the default "_model" to
\* <dataset base name>_model.pt, a synthetic-data suffix token to
\* <dataset base name><suffix>.pkl, and appends nothing to a model filename
\* that has an extension.
C7_OutputPaths ==
    (FirstCallDone /\ op = "model_check_output_paths") =>
        /\ result.kind = "return"
        /\ args.fn2 = SuffixDefault("model") =>
              result.names[2] = BaseName(args.dataset) \o <<"_", "model", ".pt">>
        /\ (IsSuffixToken(args.fn1) /\ ~HasExt(args.fn1)) =>
              result.names[1] = BaseName(args.dataset) \o args.fn1 \o <<".pkl">>
        /\ HasExt(args.fn2) =>
              result.names[2] \in {args.fn2, BaseName(args.dataset) \o args.fn2}

C7_Witness ==
    /\ FirstCallDone
    /\ op = "model_check_output_paths"
    /\ args = [dataset |-> <<"patients">>, fn1 |-> SuffixDefault("metatransformer"), fn2 |-> SuffixDefault("model")]
    /\ result.names = <<<<"patients", "_", "metatransformer", ".pkl">>, <<"patients", "_", "model", ".pt">>>>

SecondCallDone == op \in PathOps /\ phase = "done" /\ passes = 2

ArgNames == IF op \in InputPathOps THEN <<args.dataset, args.fn1, args.fn2>> ELSE <<args.fn1, args.fn2>>

\* C10 as stated: for every dataset name, the filenames a path function
\* returned, passed through it again, come back unchanged.
C10_Idempotent == SecondCallDone => (result.kind = "return" /\ result.names = ArgNames)

\* C10 amended: for every dataset whose base name does not begin with an
\* underscore, the filenames a path function returned, passed through it
\* again with the returned dataset name, come back unchanged.
C10_IdempotentNoUnderscore ==
    (SecondCallDone /\ ~IsSuffixToken(BaseName(args.dataset))) =>
        (result.kind = "return" /\ result.names = ArgNames)

C10_Witness ==
    /\ SecondCallDone
    /\ op = "model_check_input_paths"
    /\ args = [dataset |-> <<"patients", ".pkl">>, fn1 |-> <<"patients", "_", "metatransformer", ".pkl">>,
                fn2 |-> <<"patients", "_", "typed", ".pkl">>]
    /\ result.names = <<args.dataset, args.fn1, args.fn2>>

\* ---------------------------------------------------------------------
\* Calls of load_required_data: the namespace, the handover object and the
\* experiment directory are drawn in Init
\* ---------------------------------------------------------------------

LoadOps == {"model_load_required_data", "plotting_load_required_data"}

LoadDatasets == {<<"patients">>, <<"a", ".csv">>}

LoadFns == {SuffixDefault("typed"), SuffixDefault("metatransformer"), SuffixDefault("evaluations"), <<"foo", ".csv">>}

StageKeys(o) == IF o = "model_load_required_data" THEN ModelKeys ELSE PlottingKeys

KeySet(o) == {StageKeys(o)[i] : i \in 1..3}

\* the handover objects an upstream stage may have left: any subset of the
\* stage's keys, each holding the upstream stage's in-memory value
Handovers(o) == {[k \in K |-> Val("handover", <<k>>)] : K \in SUBSET KeySet(o)}

FileStates == {"ok", "absent", "unreadable", "corrupt"}

InitLoad ==
    /\ op \in LoadOps
    /\ phase = "called"
    /\ \E ds \in LoadDatasets, f1 \in LoadFns, f2 \in LoadFns, hh \in BOOLEAN, h \in Handovers(op) :
          /\ (op = "plotting_load_required_data" => hh)
          /\ (~hh => h = <<>>)
          /\ args = [dataset |-> ds, fn1 |-> f1, fn2 |-> f2, has_handover |-> hh, handover |-> h]
    /\ disk \in [ResolvedInputs(args) -> FileStates]
    /\ result = NoResult
    /\ events = <<>>
    /\ passes = 0

ModelLoadRequiredData ==
    /\ op = "model_load_required_data"
    /\ phase = "called"
    /\ LET o == model_load_required_data(args, disk)
       IN  /\ args' = o.args
           /\ result' = o.result
           /\ events' = o.events
    /\ phase' = "done"
    /\ UNCHANGED <<op, disk, passes>>

PlottingLoadRequiredData ==
    /\ op = "plotting_load_required_data"
    /\ phase = "called"
    /\ LET o == plotting_load_required_data(args, disk)
       IN  /\ args' = o.args
           /\ result' = o.result
           /\ events' = o.events
    /\ phase' = "done"
    /\ UNCHANGED <<op, disk, passes>>

NextLoad == ModelLoadRequiredData \/ PlottingLoadRequiredData

SpecLoad == InitLoad /\ [][NextLoad]_vars

\* ---------------------------------------------------------------------
\* load_required_data: properties
\* ---------------------------------------------------------------------

LoadDone == op \in LoadOps /\ phase = "done"

HandoverComplete == args.has_handover /\ KeySet(op) \subseteq DOMAIN args.handover

AllOnDisk == \A fn \in DOMAIN disk : disk[fn] = "ok"

OpenIdx == EventIdx("open") \cup EventIdx("open_failed")

FailIdx == EventIdx("open_failed") \cup EventIdx("load_failed")

\* C1: when the stage's handover object is there and the matching
\* artifacts are on disk too, load_required_data returns the handover
\* object's values and resolves no filename, checks no existence and opens
\* no file.
C1_HandoverPrecedence ==
    (LoadDone /\ HandoverComplete /\ AllOnDisk) =>
        /\ result.kind = "return"
        /\ result.vals = [i \in 1..3 |-> Val("handover", <<StageKeys(op)[i]>>)]
        /\ events = <<>>

C1_Witness ==
    /\ LoadDone
    /\ op = "model_load_required_data"
    /\ HandoverComplete
    /\ AllOnDisk
    /\ result.vals[2] = Val("handover", <<"prepared_dataset">>)

\* C2: on the disk path every file that is opened was in the list given
\* to check_exists before, so an absent input is reported as
\* MissingArtifactError and never first met by open().
C2_CheckedBeforeOpen ==
    LoadDone =>
        /\ \A i \in OpenIdx :
              \E j \in EventIdx("check_exists") :
                  j < i /\ events[i].fns[1] \in {events[j].fns[k] : k \in 1..Len(events[j].fns)}
        /\ result.err # "FileNotFoundError"

\* C5: when the model stage resolves its inputs from disk and some are
\* absent, one MissingArtifactError names exactly the absent files by
\* their resolved filenames, and no file is opened.
C5_BatchedMissing ==
    LET absent == {fn \in ResolvedInputs(args) : FileStatus(disk, fn) = "absent"}
    IN  (LoadDone /\ op = "model_load_required_data" /\ ~ModelInputTruthy(args) /\ absent # {}) =>
            /\ result.kind = "raise"
            /\ result.err = "MissingArtifactError"
            /\ {result.names[k] : k \in 1..Len(result.names)} = absent
            /\ OpenIdx = {}

C5_Witness ==
    /\ LoadDone
    /\ op = "model_load_required_data"
    /\ ~args.has_handover
    /\ args.dataset = <<"patients">>
    /\ result = Raise("MissingArtifactError",
                       <<<<"patients", "_", "typed", ".pkl">>, <<"patients", "_", "metatransformer", ".pkl">>>>)

\* C8: on the disk path, when opening or deserializing an artifact fails,
\* nothing is opened after it, the function raises and returns no value,
\* and every file that was opened has been closed.
C8_FailFast ==
    LoadDone =>
        /\ FailIdx # {} =>
              /\ result.kind = "raise"
              /\ result.vals = <<>>
              /\ \A i \in FailIdx : \A j \in OpenIdx \cup EventIdx("load") \cup FailIdx : j <= i
        /\ \A i \in EventIdx("open") :
              \E j \in EventIdx("close") : j > i /\ events[j].fns = events[i].fns

C8_Witness ==
    /\ LoadDone
    /\ op = "plotting_load_required_data"
    /\ result.err = "UnpicklingError"
    /\ \E f1, f2 \in DOMAIN disk :
          /\ f1 # f2
          /\ disk[f1] = "corrupt" /\ disk[f2] = "ok"
          /\ result.names = <<f1>>
          /\ \A i \in 1..Len(events) : events[i].ev \in {"open", "close"} => events[i].fns = <<f1>>
          /\ EventIdx("close") # {}

ValSources == {result.vals[i].src : i \in 1..Len(result.vals)}

\* C9 (the values): the plotting stage returns three handover values exactly
\* when module_handover holds all three keys; otherwise what it returns
\* comes from disk resolution alone.
C9_State ==
    (LoadDone /\ op = "plotting_load_required_data") =>
        IF KeySet(op) \subseteq DOMAIN args.handover
        THEN result.kind = "return" /\ Len(result.vals) = 3 /\ ValSources = {"handover"}
        ELSE result.kind = "return" => (Len(result.vals) = 3 /\ ValSources = {"resolved", "disk"})

\* C9: the plotting stage never mixes sources, whatever module_handover
\* holds, and the call leaves the handover object as it was.
C9_NeverMixes ==
    /\ []C9_State
    /\ [][(op = "plotting_load_required_data" /\ phase = "called") => args' = args]_vars

C9_Witness ==
    /\ LoadDone
    /\ op = "plotting_load_required_data"
    /\ DOMAIN args.handover = {"dataset", "typed"}
    /\ result.kind = "return"
    /\ ValSources = {"resolved", "disk"}

\* ---------------------------------------------------------------------
\* modules/dataloader/transformers/generic.py
\* ---------------------------------------------------------------------

\* Largest data value and missing-value placeholder drawn.
MaxVal == 2

Data == 0..MaxVal

\* the missingness column of one cell: there is none, the value was
\* present, or the value was missing
Missingness == {"none", "present", "missing"}

\* GenericTransformer is abstract; these stand for its implementations: one
\* whose revert is a left inverse of its apply, one that loses information,
\* one whose result rests on the missingness column and the missing value
Transformers == {"shift", "halve", "mask"}

TransformerApply(t, data, extra) ==
    CASE t = "shift" -> (data + 1) % (MaxVal + 1)
      [] t = "halve" -> data \div 2
      [] t = "mask"  -> IF extra[1] = "missing" THEN 0 ELSE data + 1

TransformerRevert(t, data, extra) ==
    CASE t = "shift" -> (data + MaxVal) % (MaxVal + 1)
      [] t = "halve" -> data * 2
      [] t = "mask"  -> IF extra[1] = "missing" THEN extra[2] ELSE data - 1

Call(method, t, data, extra) == [method |-> method, on |-> t, data |-> data, extra |-> extra]

\* TransformerWrapper.__init__
wrapper_init(wrapped_transformer) == [_wrapped_transformer |-> wrapped_transformer]

wrapper_apply(self, data, extra) ==
    [self |-> self,
     ret |-> TransformerApply(self._wrapped_transformer, data, extra),
     calls |-> <<Call("apply", self._wrapped_transformer, data, extra)>>]

\* C6 mutant: revert forwards to the wrapped transformer's apply
wrapper_revert_CallsApply(self, data, extra) ==
    [self |-> self,
     ret |-> TransformerApply(self._wrapped_transformer, data, extra),
     calls |-> <<Call("apply", self._wrapped_transformer, data, extra)>>]

wrapper_revert(self, data, extra) ==
    [self |-> self,
     ret |-> TransformerRevert(self._wrapped_transformer, data, extra),
     calls |-> <<Call("revert", self._wrapped_transformer, data, extra)>>]

InitWrapper ==
    /\ op = "TransformerWrapper"
    /\ phase = "called"
    /\ \E t \in Transformers, x \in Data, mc \in Missingness, mv \in Data :
          args = [self |-> wrapper_init(t), data |-> x, missingness_column |-> mc, missing_value |-> mv]
    /\ disk = <<>>
    /\ result = NoResult
    /\ events = <<>>
    /\ passes = 0

\* wrapper.apply(data, missingness_column)
WrapperApply ==
    /\ op = "TransformerWrapper"
    /\ phase = "called"
    /\ LET o == wrapper_apply(args.self, args.data, <<args.missingness_column>>)
       IN  /\ args' = [args EXCEPT !.self = o.self]
           /\ result' = Return(<<>>, <<o.ret>>)
           /\ events' = events \o o.calls
    /\ phase' = "applied"
    /\ UNCHANGED <<op, disk, passes>>

\* wrapper.revert(data, missingness_column, missing_value), on the drawn
\* data or on what wrapper.apply returned
WrapperRevert ==
    /\ op = "TransformerWrapper"
    /\ phase \in {"called", "applied"}
    /\ LET d == IF phase = "applied" THEN result.vals[1] ELSE args.data
           o == wrapper_revert(args.self, d, <<args.missingness_column, args.missing_value>>)
       IN  /\ args' = [args EXCEPT !.self = o.self]
           /\ result' = Return(<<>>, <<o.ret>>)
           /\ events' = events \o o.calls
    /\ phase' = IF phase = "applied" THEN "roundtrip" ELSE "reverted"
    /\ UNCHANGED <<op, disk, passes>>

NextWrapper == WrapperApply \/ WrapperRevert

SpecWrapper == InitWrapper /\ [][NextWrapper]_vars

\* ---------------------------------------------------------------------
\* TransformerWrapper: properties
\* ---------------------------------------------------------------------

Wrapped == args.self._wrapped_transformer

\* revert(apply(x)) = x for every x and every extra arguments
LeftInverse(t) ==
    \A x \in Data, mc \in Missingness, mv \in Data :
        TransformerRevert(t, TransformerApply(t, x, <<mc>>), <<mc, mv>>) = x

C6_State ==
    op = "TransformerWrapper" =>
        /\ phase = "applied" =>
              /\ events = <<Call("apply", Wrapped, args.data, <<args.missingness_column>>)>>
              /\ result = Return(<<>>, <<TransformerApply(Wrapped, args.data, <<args.missingness_column>>)>>)
        /\ phase = "reverted" =>
              /\ events = <<Call("revert", Wrapped, args.data, <<args.missingness_column, args.missing_value>>)>>
              /\ result = Return(<<>>, <<TransformerRevert(Wrapped, args.data,
                                                            <<args.missingness_column, args.missing_value>>)>>)
        /\ phase = "roundtrip" =>
              /\ Len(events) = 2
              /\ events[2].method = "revert"
              /\ events[2].data = TransformerApply(Wrapped, args.data, <<args.missingness_column>>)
              /\ LeftInverse(Wrapped) => result.vals = <<args.data>>

\* C6: wrapper.apply and wrapper.revert each call the wrapped transformer's
\* method of the same name once, with the same data and arguments, and
\* return its result; the wrapper keeps its wrapped transformer; so a
\* wrapped transformer that satisfies revert(apply(x)) = x gives a wrapper
\* that satisfies it.
C6_DelegatesVerbatim ==
    /\ []C6_State
    /\ [][op = "TransformerWrapper" => args'.self = args.self]_vars

C6_Witness ==
    /\ op = "TransformerWrapper"
    /\ phase = "roundtrip"
    /\ Wrapped = "shift"
    /\ args.data = MaxVal
    /\ events[1] = Call("apply", "shift", MaxVal, <<args.missingness_column>>)
    /\ events[2] = Call("revert", "shift", 0, <<args.missingness_column, args.missing_value>>)
    /\ result.vals = <<MaxVal>>

====
